---- MODULE Spec2Model ----
(***************************************************************************)
(* State-machine model of the storefront's services:                       *)
(*   - Cart         (src/src/app/services/cart.ts)                         *)
(*   - AuthService  (src/src/app/services/auth.ts)                         *)
(*   - OrderService (src/src/app/services/order.ts)                        *)
(*   - ApiService   (src/src/app/services/api.service.ts)                  *)
(* localStorage keys are variables holding an optional value: <<>> when    *)
(* the key is absent (getItem returns null), <<v>> when it holds v.        *)
(* JSON.stringify / JSON.parse are modelled as a change of representation  *)
(* (records <-> tuples), so that a save/load round trip is checkable.      *)
(***************************************************************************)
EXTENDS Integers, Sequences, FiniteSets, TLC

VARIABLES
  isBrowser,        \* isPlatformBrowser(platformId)
  cartItems,        \* Cart.cartItems signal: sequence of [product, quantity]
  cartStorage,      \* localStorage['cart']
  totalItemsMemo,   \* memoised value of the computed totalItems (<<>> = stale)
  subtotalMemo,     \* memoised value of the computed subtotal   (<<>> = stale)
  cartCall,         \* the Cart call made by the last step, with its arguments
  usersStore,       \* localStorage['ww_users']
  currentUserStore, \* localStorage['ww_current_user']
  adminStore,       \* localStorage['ww_admin_session']
  recoveryStore,    \* localStorage['ww_recovery_code']
  currentUserSignal,        \* AuthService.currentUserSignal (<<>> = null)
  adminAuthenticatedSignal, \* AuthService.adminAuthenticatedSignal
  now,              \* Date.now(), in milliseconds
  nextId,           \* number of user ids generated so far, plus one
  authCall,         \* the AuthService call made by the last step, with its result
  currentOrder,     \* OrderService.currentOrder signal (<<>> = null)
  orderStorage,     \* localStorage['order_<orderNumber>'], by order number
  lastOrderStore,   \* localStorage['lastOrder']
  nextOrderId,      \* number of order ids generated so far, plus one
  orderCall,        \* the OrderService call made by the last step, with its result
  sharedItems,      \* product ids whose CartItem object is held both by the
                    \* cartItems array and by currentOrder.items
  categoriesLoaded, \* ApiService.categoriesLoaded
  productsLoaded,   \* ApiService.productsLoaded
  categoriesSignal, \* ApiService.categories signal
  productsSignal,   \* ApiService.products signal
  categoriesStore,  \* localStorage['categories']
  productsStore,    \* localStorage['products']
  categoriesPending, \* GET categories.json requests awaiting their response
  productsPending,  \* GET products.json requests awaiting their response
  categoriesGets,   \* GET categories.json requests sent by this ApiService
  productsGets,     \* GET products.json requests sent by this ApiService
  otherTabCartItems,   \* Cart.cartItems signal of a second tab on the same storage
  otherTabCurrentUser, \* AuthService.currentUserSignal of that second tab
  cartWriter,       \* the tab whose Cart wrote localStorage['cart'] last
  recoveryHolder,   \* id of the user sendVerificationCode found for the stored
                    \* recovery request, where a step records it (<<>> = none)
  checkoutPage      \* the Checkout component: "closed" (not on screen), "open",
                    \* or "leaving" (confirmOrder's navigation not yet complete)

cartVars == <<cartItems, cartStorage, totalItemsMemo, subtotalMemo, cartCall>>

authVars == <<usersStore, currentUserStore, adminStore, recoveryStore,
              currentUserSignal, adminAuthenticatedSignal, now, nextId, authCall>>

orderVars == <<currentOrder, orderStorage, lastOrderStore, nextOrderId, orderCall,
               sharedItems>>

apiVars == <<categoriesLoaded, productsLoaded, categoriesSignal, productsSignal,
             categoriesStore, productsStore, categoriesPending, productsPending,
             categoriesGets, productsGets>>

otherTabVars == <<otherTabCartItems, otherTabCurrentUser>>

vars == <<isBrowser, cartItems, cartStorage, totalItemsMemo, subtotalMemo, cartCall,
          usersStore, currentUserStore, adminStore, recoveryStore,
          currentUserSignal, adminAuthenticatedSignal, now, nextId, authCall,
          currentOrder, orderStorage, lastOrderStore, nextOrderId, orderCall,
          sharedItems,
          categoriesLoaded, productsLoaded, categoriesSignal, productsSignal,
          categoriesStore, productsStore, categoriesPending, productsPending,
          categoriesGets, productsGets,
          otherTabCartItems, otherTabCurrentUser, cartWriter, recoveryHolder,
          checkoutPage>>

----------------------------------------------------------------------------
(* Bounds of the exploration *)

\* largest quantity a line item is let to reach
MaxQuantity == 3
\* quantities are explored down to -MaxNegative (addToCart takes any number)
MaxNegative == 1

(* Program constants *)
FreeShippingThreshold == 50000
ShippingFee == 5000

\* Products: the three test products of the Cart service spec (id, price);
\* name, description, image and categoryId are never read by the service.
Products ==
  { [id |-> 1, price |-> 10000],
    [id |-> 2, price |-> 15000],
    [id |-> 3, price |-> 25000] }

ProductIds == {p.id : p \in Products}

\* quantity arguments passed to addToCart / updateQuantity
QuantityArgs == (0 - MaxNegative)..MaxQuantity

Absent == <<>>
Some(v) == <<v>>

----------------------------------------------------------------------------
(* Cart: pure helpers *)

\* Array.prototype.findIndex on product id; 0 stands for JavaScript's -1
findIndex(items, productId) ==
  IF \E i \in 1..Len(items) : items[i].product.id = productId
  THEN CHOOSE i \in 1..Len(items) :
         /\ items[i].product.id = productId
         /\ \A j \in 1..(i - 1) : items[j].product.id # productId
  ELSE 0

\* Array.prototype.filter(item => item.product.id !== productId)
RECURSIVE filterOut(_, _)
filterOut(items, productId) ==
  IF items = <<>> THEN <<>>
  ELSE IF Head(items).product.id # productId
       THEN <<Head(items)>> \o filterOut(Tail(items), productId)
       ELSE filterOut(Tail(items), productId)

\* reduce((total, item) => total + item.quantity, 0)
RECURSIVE totalItemsReduce(_)
totalItemsReduce(items) ==
  IF items = <<>> THEN 0
  ELSE Head(items).quantity + totalItemsReduce(Tail(items))

\* reduce((total, item) => total + item.product.price * item.quantity, 0)
RECURSIVE subtotalReduce_priceOnly(_)
subtotalReduce_priceOnly(items) ==
  IF items = <<>> THEN 0
  ELSE Head(items).product.price + subtotalReduce_priceOnly(Tail(items))

RECURSIVE subtotalReduce(_)
subtotalReduce(items) ==
  IF items = <<>> THEN 0
  ELSE Head(items).product.price * Head(items).quantity + subtotalReduce(Tail(items))

\* JSON.stringify(CartItem[]) and JSON.parse of it
stringifyCart(items) ==
  [i \in 1..Len(items) |->
     <<items[i].product.id, items[i].product.price, items[i].quantity>>]

parseCart(json) ==
  [i \in 1..Len(json) |->
     [product |-> [id |-> json[i][1], price |-> json[i][2]], quantity |-> json[i][3]]]

----------------------------------------------------------------------------
(* Cart: derived reads (computed signals are memoised until cartItems is set) *)

totalItems == IF totalItemsMemo # Absent THEN totalItemsMemo[1] ELSE totalItemsReduce(cartItems)

subtotal == IF subtotalMemo # Absent THEN subtotalMemo[1] ELSE subtotalReduce(cartItems)

total == subtotal

getShippingCost_strict == IF subtotal > FreeShippingThreshold THEN 0 ELSE ShippingFee

getShippingCost == IF subtotal >= FreeShippingThreshold THEN 0 ELSE ShippingFee

getFinalTotal == subtotal + getShippingCost

\* the total getters of the cart page and of the checkout page
cartPageTotal == total

checkoutTotal == getFinalTotal

----------------------------------------------------------------------------
(* Cart: the new item list each mutator passes to cartItems.set *)

addToCartItems_alwaysAppend(items, product, quantity) ==
  Append(items, [product |-> product, quantity |-> quantity])

addToCartItems(items, product, quantity) ==
  LET existingItemIndex == findIndex(items, product.id) IN
  IF existingItemIndex > 0
  THEN [items EXCEPT ![existingItemIndex].quantity = @ + quantity]
  ELSE Append(items, [product |-> product, quantity |-> quantity])

removeFromCartItems_dropFirst(items, productId) ==
  IF items = <<>> THEN <<>> ELSE Tail(items)

removeFromCartItems(items, productId) == filterOut(items, productId)

updateQuantityItems(items, productId, quantity) ==
  IF quantity <= 0
  THEN removeFromCartItems(items, productId)
  ELSE [i \in 1..Len(items) |->
          IF items[i].product.id = productId
          THEN [items[i] EXCEPT !.quantity = quantity]
          ELSE items[i]]

saveCartToStorage_skip(items) == cartStorage

saveCartToStorage_keepStored(items) ==
  IF isBrowser /\ cartStorage = Absent THEN Some(stringifyCart(items)) ELSE cartStorage

saveCartToStorage(items) ==
  IF isBrowser THEN Some(stringifyCart(items)) ELSE cartStorage

\* what the constructor's loadCartFromStorage leaves in cartItems (initially [])
loadCartFromStorage(storage) ==
  IF isBrowser /\ storage # Absent THEN parseCart(storage[1]) ELSE <<>>

InRange(items) ==
  \A i \in 1..Len(items) :
     /\ items[i].quantity >= 0 - MaxNegative
     /\ items[i].quantity <= MaxQuantity

\* cartItems.set(newArray) followed by saveCartToStorage()
SetAndSave(items) ==
  /\ InRange(items)
  /\ cartItems' = items
  /\ totalItemsMemo' = Absent
  /\ subtotalMemo' = Absent
  /\ cartStorage' = saveCartToStorage(items)
  /\ cartWriter' = IF isBrowser THEN "thisTab" ELSE cartWriter
  /\ UNCHANGED <<isBrowser, recoveryHolder, checkoutPage, otherTabVars, authVars, apiVars,
                 orderStorage, lastOrderStore, nextOrderId, orderCall>>

\* updatedItems[existingItemIndex].quantity += quantity changes the CartItem
\* object in place: an order whose items array holds the same object (the
\* [...items] of createOrder copies the array, not its objects) sees it
addToCartInPlace(order, productId, quantity) ==
  IF order = Absent \/ productId \notin sharedItems
  THEN order
  ELSE Some([order[1] EXCEPT !.items =
               [i \in 1..Len(order[1].items) |->
                  IF order[1].items[i].product.id = productId
                  THEN [order[1].items[i] EXCEPT !.quantity = @ + quantity]
                  ELSE order[1].items[i]]])

Call(op, productId, quantity) ==
  [op |-> op, productId |-> productId, quantity |-> quantity,
   existed |-> findIndex(cartItems, productId) > 0]

----------------------------------------------------------------------------
(* Cart: actions *)

CartInit ==
  /\ cartItems = <<>>
  /\ cartStorage = Absent
  /\ totalItemsMemo = Absent
  /\ subtotalMemo = Absent
  /\ cartCall = [op |-> "constructor", productId |-> 0, quantity |-> 0, existed |-> FALSE]

AddToCartStep(product, quantity) ==
    /\ SetAndSave(addToCartItems(cartItems, product, quantity))
    /\ cartCall' = Call("addToCart", product.id, quantity)
    /\ currentOrder' = addToCartInPlace(currentOrder, product.id, quantity)
    /\ UNCHANGED sharedItems

AddToCart ==
  \E product \in Products, quantity \in QuantityArgs : AddToCartStep(product, quantity)

\* the product whose card is shown in the checkout explorations
CardProducts == { p \in Products : p.price = 25000 }

\* the product card's button: addToCart(product, 1)
AddOneToCart ==
  \E product \in CardProducts : AddToCartStep(product, 1)

UpdateQuantity ==
  \E productId \in ProductIds, quantity \in QuantityArgs :
    /\ SetAndSave(updateQuantityItems(cartItems, productId, quantity))
    /\ cartCall' = Call("updateQuantity", productId, quantity)
    /\ sharedItems' = sharedItems \ {productId}
    /\ UNCHANGED currentOrder

RemoveFromCart ==
  \E productId \in ProductIds :
    /\ SetAndSave(removeFromCartItems(cartItems, productId))
    /\ cartCall' = Call("removeFromCart", productId, 0)
    /\ sharedItems' = sharedItems \ {productId}
    /\ UNCHANGED currentOrder

ClearCart ==
  /\ SetAndSave(<<>>)
  /\ cartCall' = Call("clearCart", 0, 0)
  /\ sharedItems' = {}
  /\ UNCHANGED currentOrder

\* a template or caller reads totalItems(): the computed recomputes if stale
ReadTotalItems ==
  /\ totalItemsMemo' = Some(totalItems)
  /\ cartCall' = Call("totalItems", 0, 0)
  /\ UNCHANGED <<isBrowser, recoveryHolder, checkoutPage, otherTabVars, cartWriter, cartItems, cartStorage, subtotalMemo, authVars, orderVars, apiVars>>

ReadSubtotal ==
  /\ subtotalMemo' = Some(subtotal)
  /\ cartCall' = Call("subtotal", 0, 0)
  /\ UNCHANGED <<isBrowser, recoveryHolder, checkoutPage, otherTabVars, cartWriter, cartItems, cartStorage, totalItemsMemo, authVars, orderVars, apiVars>>

\* page reload: a new Cart is constructed and loads the stored list
CartConstructor ==
  /\ cartItems' = loadCartFromStorage(cartStorage)
  /\ totalItemsMemo' = Absent
  /\ subtotalMemo' = Absent
  /\ cartCall' = Call("constructor", 0, 0)
  /\ sharedItems' = {}
  /\ UNCHANGED <<isBrowser, recoveryHolder, checkoutPage, otherTabVars, cartWriter, cartStorage, authVars, apiVars, currentOrder,
                 orderStorage, lastOrderStore, nextOrderId, orderCall>>

CartNext ==
  \/ AddToCart
  \/ UpdateQuantity
  \/ RemoveFromCart
  \/ ClearCart
  \/ ReadTotalItems
  \/ ReadSubtotal
  \/ CartConstructor

----------------------------------------------------------------------------
(* AuthService: values *)

\* users registered in one exploration
MaxUsers == 2
\* clock ticks explored
MaxTicks == 2

\* 10 * 60 * 1000: lifetime of a recovery code, in milliseconds
TenMinutes == 600000

TickStep == TenMinutes

\* Strings whose case matters are sequences of characters.
LowerChar(c) == IF c = "A" THEN "a" ELSE IF c = "B" THEN "b" ELSE IF c = "P" THEN "p" ELSE c

\* String.prototype.toLowerCase
toLowerCase(s) == [i \in 1..Len(s) |-> LowerChar(s[i])]

Emails == { <<"a", "@">>, <<"A", "@">>, <<"b", "@">> }

Usernames == { <<"a">>, <<"A">>, <<"b">> }

Passwords == { <<"p">>, <<"P">> }

Codes == { "123456", "654321" }

\* codes generateVerificationCode draws, and codes a visitor types
GeneratedCodes == { "123456" }

\* RegisterData submitted by the sign-up form (all fields required there);
\* nombre, fechaNacimiento and comentarios are plain data and left out.
RegisterInputs ==
  { [usuario |-> <<"a">>, email |-> <<"a", "@">>, password |-> <<"p">>],
    [usuario |-> <<"b">>, email |-> <<"A", "@">>, password |-> <<"P">>],
    [usuario |-> <<"A">>, email |-> <<"b", "@">>, password |-> <<"p">>],
    [usuario |-> <<"b">>, email |-> <<"b", "@">>, password |-> <<"P">>] }

\* Partial<User> passed to updateProfile: <<>> is a field that is not
\* supplied (for password the code treats absent and '' alike); the
\* edit-profile form never submits an empty usuario or email.
UpdateInputs ==
  { d \in [usuario : Usernames \cup {<<>>}, email : Emails \cup {<<>>},
           password : Passwords \cup {<<>>}] :
      \/ Cardinality({f \in {"usuario", "email", "password"} : d[f] # <<>>}) <= 1
      \/ d.password = <<>> }

LoginInputs == [emailOrUsername : Emails \cup Usernames, password : Passwords]

ADMIN_CREDENTIALS == [usuario |-> "admin", password |-> "1234"]

AdminLoginInputs == { ADMIN_CREDENTIALS, [usuario |-> "admin", password |-> "0000"] }

Ok(message) == [success |-> TRUE, message |-> message, user |-> Absent]

OkUser(message, user) == [success |-> TRUE, message |-> message, user |-> Some(user)]

Fail(message) == [success |-> FALSE, message |-> message, user |-> Absent]

----------------------------------------------------------------------------
(* AuthService: storage helpers *)

\* JSON.stringify(User) and JSON.parse of it
stringifyUser(u) == <<u.id, u.usuario, u.email, u.password, u.fechaRegistro>>

parseUser(json) ==
  [id |-> json[1], usuario |-> json[2], email |-> json[3], password |-> json[4],
   fechaRegistro |-> json[5]]

stringifyUsers(users) == [i \in 1..Len(users) |-> stringifyUser(users[i])]

parseUsers(json) == [i \in 1..Len(json) |-> parseUser(json[i])]

getAllUsers ==
  IF ~isBrowser THEN <<>>
  ELSE IF usersStore = Absent THEN <<>>
  ELSE parseUsers(usersStore[1])

\* value of localStorage['ww_users'] after saveAllUsers(users)
saveAllUsers(users) ==
  IF ~isBrowser THEN usersStore ELSE Some(stringifyUsers(users))

setCurrentUser_store_signalOnly(user) == currentUserStore

\* value of localStorage['ww_current_user'] after setCurrentUser(user)
setCurrentUser_store(user) ==
  IF isBrowser THEN Some(stringifyUser(user)) ELSE currentUserStore

isAuthenticated == currentUserSignal # Absent

\* users.some(u => u.email.toLowerCase() === email.toLowerCase())
emailTaken_caseSensitive(users, email) ==
  \E i \in 1..Len(users) : users[i].email = email

emailTaken(users, email) ==
  \E i \in 1..Len(users) : toLowerCase(users[i].email) = toLowerCase(email)

usuarioTaken(users, usuario) ==
  \E i \in 1..Len(users) : toLowerCase(users[i].usuario) = toLowerCase(usuario)

\* users.findIndex(u => u.id === id); 0 stands for JavaScript's -1
findUserIndexById(users, id) ==
  IF \E i \in 1..Len(users) : users[i].id = id
  THEN CHOOSE i \in 1..Len(users) :
         users[i].id = id /\ \A j \in 1..(i - 1) : users[j].id # id
  ELSE 0

\* users.findIndex(u => u.email.toLowerCase() === email.toLowerCase())
findUserIndexByEmail(users, email) ==
  IF emailTaken(users, email)
  THEN CHOOSE i \in 1..Len(users) :
         /\ toLowerCase(users[i].email) = toLowerCase(email)
         /\ \A j \in 1..(i - 1) : toLowerCase(users[j].email) # toLowerCase(email)
  ELSE 0

loginMatches_anyPassword(u, credentials) ==
  \/ toLowerCase(u.email) = toLowerCase(credentials.emailOrUsername)
  \/ toLowerCase(u.usuario) = toLowerCase(credentials.emailOrUsername)

\* the predicate of login's users.find
loginMatches(u, credentials) ==
  /\ \/ toLowerCase(u.email) = toLowerCase(credentials.emailOrUsername)
     \/ toLowerCase(u.usuario) = toLowerCase(credentials.emailOrUsername)
  /\ u.password = credentials.password

\* users.find(...): index of the first match, 0 when undefined
loginFind(users, credentials) ==
  IF \E i \in 1..Len(users) : loginMatches(users[i], credentials)
  THEN CHOOSE i \in 1..Len(users) :
         /\ loginMatches(users[i], credentials)
         /\ \A j \in 1..(i - 1) : ~loginMatches(users[j], credentials)
  ELSE 0

----------------------------------------------------------------------------
(* AuthService: what each method returns and leaves in the state.          *)
(* An outcome is [users, signal, store, result]: the new values of         *)
(* ww_users, currentUserSignal and ww_current_user, and the returned value.*)

Unchanged(result) ==
  [users |-> usersStore, signal |-> currentUserSignal, store |-> currentUserStore,
   result |-> result]

registerOutcome_usuarioFirst(data) ==
  LET users == getAllUsers
      newUser == [id |-> nextId, usuario |-> data.usuario, email |-> data.email,
                  password |-> data.password, fechaRegistro |-> now]
  IN
  IF usuarioTaken(users, data.usuario)
  THEN Unchanged(Fail("El nombre de usuario ya está en uso"))
  ELSE IF emailTaken(users, data.email)
  THEN Unchanged(Fail("El email ya está registrado"))
  ELSE [users |-> saveAllUsers(Append(users, newUser)),
        signal |-> Some(newUser),
        store |-> setCurrentUser_store(newUser),
        result |-> OkUser("Usuario registrado exitosamente", newUser)]

registerOutcome(data) ==
  LET users == getAllUsers
      newUser == [id |-> nextId, usuario |-> data.usuario, email |-> data.email,
                  password |-> data.password, fechaRegistro |-> now]
  IN
  IF emailTaken(users, data.email)
  THEN Unchanged(Fail("El email ya está registrado"))
  ELSE IF usuarioTaken(users, data.usuario)
  THEN Unchanged(Fail("El nombre de usuario ya está en uso"))
  ELSE [users |-> saveAllUsers(Append(users, newUser)),
        signal |-> Some(newUser),
        store |-> setCurrentUser_store(newUser),
        result |-> OkUser("Usuario registrado exitosamente", newUser)]

loginOutcome(credentials) ==
  LET users == getAllUsers
      found == loginFind(users, credentials)
  IN
  IF found = 0
  THEN Unchanged(Fail("Credenciales incorrectas"))
  ELSE [users |-> usersStore,
        signal |-> Some(users[found]),
        store |-> setCurrentUser_store(users[found]),
        result |-> OkUser("Inicio de sesión exitoso", users[found])]

logoutOutcome_keepSignal ==
  [users |-> usersStore,
   signal |-> currentUserSignal,
   store |-> IF isBrowser THEN Absent ELSE currentUserStore,
   result |-> Ok("")]

logoutOutcome ==
  [users |-> usersStore,
   signal |-> Absent,
   store |-> IF isBrowser THEN Absent ELSE currentUserStore,
   result |-> Ok("")]

updateProfileOutcome_noUsuarioCheck(updatedData) ==
  IF currentUserSignal = Absent
  THEN Unchanged(Fail("No hay sesión activa"))
  ELSE
    LET currentUser == currentUserSignal[1]
        users == getAllUsers
        userIndex == findUserIndexById(users, currentUser.id)
        updatedUser ==
          [id |-> currentUser.id,
           usuario |-> IF updatedData.usuario # <<>> THEN updatedData.usuario
                       ELSE currentUser.usuario,
           email |-> IF updatedData.email # <<>> THEN updatedData.email
                     ELSE currentUser.email,
           password |-> IF updatedData.password # <<>> THEN updatedData.password
                        ELSE currentUser.password,
           fechaRegistro |-> currentUser.fechaRegistro]
    IN
    IF userIndex = 0
    THEN Unchanged(Fail("Usuario no encontrado"))
    ELSE IF /\ updatedData.email # <<>>
            /\ updatedData.email # currentUser.email
            /\ \E i \in 1..Len(users) :
                 /\ users[i].id # currentUser.id
                 /\ toLowerCase(users[i].email) = toLowerCase(updatedData.email)
    THEN Unchanged(Fail("El email ya está en uso"))
    ELSE [users |-> saveAllUsers([users EXCEPT ![userIndex] = updatedUser]),
          signal |-> Some(updatedUser),
          store |-> setCurrentUser_store(updatedUser),
          result |-> Ok("Perfil actualizado exitosamente")]

updateProfileOutcome(updatedData) ==
  IF currentUserSignal = Absent
  THEN Unchanged(Fail("No hay sesión activa"))
  ELSE
    LET currentUser == currentUserSignal[1]
        users == getAllUsers
        userIndex == findUserIndexById(users, currentUser.id)
        updatedUser ==
          [id |-> currentUser.id,
           usuario |-> IF updatedData.usuario # <<>> THEN updatedData.usuario
                       ELSE currentUser.usuario,
           email |-> IF updatedData.email # <<>> THEN updatedData.email
                     ELSE currentUser.email,
           password |-> IF updatedData.password # <<>> THEN updatedData.password
                        ELSE currentUser.password,
           fechaRegistro |-> currentUser.fechaRegistro]
    IN
    IF userIndex = 0
    THEN Unchanged(Fail("Usuario no encontrado"))
    ELSE IF /\ updatedData.email # <<>>
            /\ updatedData.email # currentUser.email
            /\ \E i \in 1..Len(users) :
                 /\ users[i].id # currentUser.id
                 /\ toLowerCase(users[i].email) = toLowerCase(updatedData.email)
    THEN Unchanged(Fail("El email ya está en uso"))
    ELSE IF /\ updatedData.usuario # <<>>
            /\ updatedData.usuario # currentUser.usuario
            /\ \E i \in 1..Len(users) :
                 /\ users[i].id # currentUser.id
                 /\ toLowerCase(users[i].usuario) = toLowerCase(updatedData.usuario)
    THEN Unchanged(Fail("El nombre de usuario ya está en uso"))
    ELSE [users |-> saveAllUsers([users EXCEPT ![userIndex] = updatedUser]),
          signal |-> Some(updatedUser),
          store |-> setCurrentUser_store(updatedUser),
          result |-> Ok("Perfil actualizado exitosamente")]

checkEmailExists_exactCase(email) == emailTaken_caseSensitive(getAllUsers, email)

checkEmailExists(email) == emailTaken(getAllUsers, email)

\* JSON form of the recovery request: <<email, code, timestamp, expires>>
\* verifyRecoveryCode: [recovery, result], recovery the new ww_recovery_code
verifyRecoveryCodeOutcome_exactEmail(email, code) ==
  IF ~isBrowser
  THEN [recovery |-> recoveryStore, result |-> Fail("Operación no disponible")]
  ELSE IF recoveryStore = Absent
  THEN [recovery |-> recoveryStore, result |-> Fail("No hay código de recuperación activo")]
  ELSE IF now > recoveryStore[1][4]
  THEN [recovery |-> Absent, result |-> Fail("El código ha expirado. Solicita uno nuevo")]
  ELSE IF recoveryStore[1][1] = email /\ recoveryStore[1][2] = code
  THEN [recovery |-> recoveryStore, result |-> Ok("Código verificado correctamente")]
  ELSE [recovery |-> recoveryStore, result |-> Fail("Código incorrecto")]

verifyRecoveryCodeOutcome(email, code) ==
  IF ~isBrowser
  THEN [recovery |-> recoveryStore, result |-> Fail("Operación no disponible")]
  ELSE IF recoveryStore = Absent
  THEN [recovery |-> recoveryStore, result |-> Fail("No hay código de recuperación activo")]
  ELSE IF now > recoveryStore[1][4]
  THEN [recovery |-> Absent, result |-> Fail("El código ha expirado. Solicita uno nuevo")]
  ELSE IF toLowerCase(recoveryStore[1][1]) = toLowerCase(email) /\ recoveryStore[1][2] = code
  THEN [recovery |-> recoveryStore, result |-> Ok("Código verificado correctamente")]
  ELSE [recovery |-> recoveryStore, result |-> Fail("Código incorrecto")]

isAdminAuthenticated_always == TRUE

isAdminAuthenticated == adminAuthenticatedSignal

getRegisteredUsers == IF ~isAdminAuthenticated THEN <<>> ELSE getAllUsers

\* Date.setHours(0, 0, 0, 0) on a time in milliseconds (time zone left out)
startOfDay(t) == t - (t % 86400000)

getUserStats ==
  IF ~isAdminAuthenticated
  THEN [total |-> 0, todayRegistrations |-> 0]
  ELSE LET users == getAllUsers IN
       [total |-> Len(users),
        todayRegistrations |->
          Cardinality({i \in 1..Len(users) :
                         startOfDay(users[i].fechaRegistro) = startOfDay(now)})]

----------------------------------------------------------------------------
(* Route guards (src/unnamed/part_000) and routes (src/src/app/app.routes.ts) *)
(* A guard returns true, or navigates elsewhere and returns false.           *)

Activated == [allowed |-> TRUE, navigate |-> Absent]

RedirectTo(url) == [allowed |-> FALSE, navigate |-> Some(url)]

authGuard_open == Activated

authGuard == IF isAuthenticated THEN Activated ELSE RedirectTo("/sign-in")

guestGuard == IF ~isAuthenticated THEN Activated ELSE RedirectTo("/profile")

adminGuard == IF isAdminAuthenticated THEN Activated ELSE RedirectTo("/admin-login")

adminGuestGuard == IF ~isAdminAuthenticated THEN Activated ELSE RedirectTo("/admin-dashboard")

\* path and canActivate of each route; a route without guards has <<>>
routes ==
  { [path |-> "", canActivate |-> <<>>],
    [path |-> "products", canActivate |-> <<>>],
    [path |-> "products/:category", canActivate |-> <<>>],
    [path |-> "product/:id", canActivate |-> <<>>],
    [path |-> "cart", canActivate |-> <<>>],
    [path |-> "checkout", canActivate |-> <<"authGuard">>],
    [path |-> "confirmation", canActivate |-> <<>>],
    [path |-> "sign-in", canActivate |-> <<"guestGuard">>],
    [path |-> "sign-up", canActivate |-> <<"guestGuard">>],
    [path |-> "profile", canActivate |-> <<"authGuard">>],
    [path |-> "edit-profile", canActivate |-> <<"authGuard">>],
    [path |-> "recover-password", canActivate |-> <<"guestGuard">>],
    [path |-> "admin-login", canActivate |-> <<"adminGuestGuard">>],
    [path |-> "admin-dashboard", canActivate |-> <<"adminGuard">>] }

\* what the router gets from the guards of a route, run in order
RECURSIVE runGuards(_)
runGuards(guards) ==
  IF guards = <<>> THEN Activated
  ELSE LET first == CASE Head(guards) = "authGuard" -> authGuard
                      [] Head(guards) = "guestGuard" -> guestGuard
                      [] Head(guards) = "adminGuard" -> adminGuard
                      [] Head(guards) = "adminGuestGuard" -> adminGuestGuard
       IN IF first.allowed THEN runGuards(Tail(guards)) ELSE first

\* the outcome of navigating to a path of the route table
activation(path) ==
  runGuards((CHOOSE r \in routes : r.path = path).canActivate)

----------------------------------------------------------------------------
(* AuthService: actions *)

AuthCall(op, args, result) == [op |-> op, args |-> args, result |-> result]

NoArgs == [none |-> TRUE]

AuthInit ==
  /\ usersStore = Absent
  /\ currentUserStore = Absent
  /\ adminStore = Absent
  /\ recoveryStore = Absent
  /\ currentUserSignal = Absent
  /\ adminAuthenticatedSignal = FALSE
  /\ now = 0
  /\ nextId = 1
  /\ authCall = AuthCall("constructor", NoArgs, Ok(""))
  /\ recoveryHolder = Absent

\* the part of the state an outcome [users, signal, store, result] decides
Apply(op, args, outcome) ==
  /\ usersStore' = outcome.users
  /\ currentUserSignal' = outcome.signal
  /\ currentUserStore' = outcome.store
  /\ authCall' = AuthCall(op, args, outcome.result)

\* page reload: a new AuthService loads the user and admin sessions
AuthConstructor ==
  /\ currentUserSignal' =
       IF isBrowser /\ currentUserStore # Absent
       THEN Some(parseUser(currentUserStore[1])) ELSE Absent
  /\ adminAuthenticatedSignal' = (isBrowser /\ adminStore = Some("true"))
  /\ authCall' = AuthCall("constructor", NoArgs, Ok(""))
  /\ UNCHANGED <<isBrowser, recoveryHolder, checkoutPage, otherTabVars, cartWriter, cartVars, orderVars, apiVars, usersStore, currentUserStore, adminStore,
                 recoveryStore, now, nextId>>

Register ==
  \E data \in RegisterInputs :
    LET outcome == registerOutcome(data) IN
    /\ outcome.result.success => nextId <= MaxUsers
    /\ Apply("register", data, outcome)
    /\ nextId' = IF outcome.result.success THEN nextId + 1 ELSE nextId
    /\ UNCHANGED <<isBrowser, recoveryHolder, checkoutPage, otherTabVars, cartWriter, cartVars, orderVars, apiVars, adminStore, recoveryStore,
                   adminAuthenticatedSignal, now>>

Login ==
  \E credentials \in LoginInputs :
    /\ Apply("login", credentials, loginOutcome(credentials))
    /\ UNCHANGED <<isBrowser, recoveryHolder, checkoutPage, otherTabVars, cartWriter, cartVars, orderVars, apiVars, adminStore, recoveryStore,
                   adminAuthenticatedSignal, now, nextId>>

Logout ==
  /\ Apply("logout", NoArgs, logoutOutcome)
  /\ UNCHANGED <<isBrowser, recoveryHolder, checkoutPage, otherTabVars, cartWriter, cartVars, orderVars, apiVars, adminStore, recoveryStore,
                 adminAuthenticatedSignal, now, nextId>>

\* updateProfile(updatedData); args is what authCall keeps of the arguments
UpdateProfileStep(updatedData, args) ==
    /\ Apply("updateProfile", args, updateProfileOutcome(updatedData))
    /\ UNCHANGED <<isBrowser, recoveryHolder, checkoutPage, otherTabVars, cartWriter, cartVars, orderVars, apiVars, adminStore, recoveryStore,
                   adminAuthenticatedSignal, now, nextId>>

UpdateProfile ==
  \E updatedData \in UpdateInputs : UpdateProfileStep(updatedData, NoArgs)

\* the same call, with the partial update kept in authCall
UpdateProfileWithArgs ==
  \E updatedData \in UpdateInputs : UpdateProfileStep(updatedData, updatedData)

\* sendVerificationCode(email), code being what generateVerificationCode draws
SendVerificationCodeStep(email, code, args) ==
    /\ IF ~checkEmailExists(email)
       THEN /\ authCall' = AuthCall("sendVerificationCode", args,
                                    Fail("No existe una cuenta con este email"))
            /\ UNCHANGED recoveryStore
       ELSE /\ authCall' = AuthCall("sendVerificationCode", args,
                                    Ok("Código de verificación enviado"))
            /\ recoveryStore' =
                 IF isBrowser
                 THEN Some(<<toLowerCase(email), code, now, now + TenMinutes>>)
                 ELSE recoveryStore
    /\ UNCHANGED <<isBrowser, checkoutPage, otherTabVars, cartWriter, cartVars, orderVars, apiVars, usersStore, currentUserStore, adminStore,
                   currentUserSignal, adminAuthenticatedSignal, now, nextId>>

SendVerificationCode ==
  \E email \in Emails, code \in GeneratedCodes :
    /\ SendVerificationCodeStep(email, code, NoArgs)
    /\ UNCHANGED recoveryHolder

\* the same call, any code drawn, with the email, the code returned and the
\* code of the request it found in storage kept in authCall
SendVerificationCodeWithArgs ==
  \E email \in Emails, code \in Codes :
    /\ SendVerificationCodeStep(email, code,
         [email |-> email, code |-> code,
          replaced |-> IF recoveryStore = Absent THEN Absent ELSE Some(recoveryStore[1][2])])
    /\ UNCHANGED recoveryHolder

\* the same call, recording the user whose email made checkEmailExists true
\* when the request was stored
SendVerificationCodeToHolder ==
  \E email \in Emails, code \in Codes :
    /\ SendVerificationCodeStep(email, code, [email |-> email, code |-> code])
    /\ recoveryHolder' =
         IF isBrowser /\ checkEmailExists(email)
         THEN Some(getAllUsers[findUserIndexByEmail(getAllUsers, email)].id)
         ELSE recoveryHolder

VerifyRecoveryCodeStep(email, code, args) ==
    LET outcome == verifyRecoveryCodeOutcome(email, code) IN
    /\ recoveryStore' = outcome.recovery
    /\ authCall' = AuthCall("verifyRecoveryCode", args, outcome.result)
    /\ UNCHANGED <<isBrowser, recoveryHolder, checkoutPage, otherTabVars, cartWriter, cartVars, orderVars, apiVars, usersStore, currentUserStore, adminStore,
                   currentUserSignal, adminAuthenticatedSignal, now, nextId>>

VerifyRecoveryCode ==
  \E email \in Emails, code \in Codes : VerifyRecoveryCodeStep(email, code, NoArgs)

\* the same call, with its arguments kept in authCall
VerifyRecoveryCodeWithArgs ==
  \E email \in Emails, code \in Codes :
    VerifyRecoveryCodeStep(email, code, [email |-> email, code |-> code])

ResetPasswordStep(email, code, newPassword, args) ==
    LET codeVerification == verifyRecoveryCodeOutcome(email, code)
        users == getAllUsers
        userIndex == findUserIndexByEmail(users, email)
    IN
    /\ IF ~codeVerification.result.success
       THEN /\ recoveryStore' = codeVerification.recovery
            /\ authCall' = AuthCall("resetPassword", args, codeVerification.result)
            /\ UNCHANGED usersStore
       ELSE IF userIndex = 0
       THEN /\ recoveryStore' = codeVerification.recovery
            /\ authCall' = AuthCall("resetPassword", args, Fail("Usuario no encontrado"))
            /\ UNCHANGED usersStore
       ELSE /\ usersStore' = saveAllUsers([users EXCEPT ![userIndex].password = newPassword])
            /\ recoveryStore' = IF isBrowser THEN Absent ELSE codeVerification.recovery
            /\ authCall' = AuthCall("resetPassword", args,
                                    Ok("Contraseña restablecida exitosamente"))
    /\ UNCHANGED <<isBrowser, recoveryHolder, checkoutPage, otherTabVars, cartWriter, cartVars, orderVars, apiVars, currentUserStore, adminStore,
                   currentUserSignal, adminAuthenticatedSignal, now, nextId>>

ResetPassword ==
  \E email \in Emails, code \in Codes, newPassword \in Passwords :
    ResetPasswordStep(email, code, newPassword, NoArgs)

\* the same call, with its email and code kept in authCall
ResetPasswordWithArgs ==
  \E email \in Emails, code \in Codes, newPassword \in Passwords :
    ResetPasswordStep(email, code, newPassword, [email |-> email, code |-> code])

AdminLogin ==
  \E credentials \in AdminLoginInputs :
    /\ IF /\ credentials.usuario = ADMIN_CREDENTIALS.usuario
          /\ credentials.password = ADMIN_CREDENTIALS.password
       THEN /\ adminAuthenticatedSignal' = TRUE
            /\ adminStore' = IF isBrowser THEN Some("true") ELSE adminStore
            /\ authCall' = AuthCall("adminLogin", NoArgs,
                                    Ok("Acceso de administrador concedido"))
       ELSE /\ authCall' = AuthCall("adminLogin", NoArgs,
                                    Fail("Credenciales de administrador incorrectas"))
            /\ UNCHANGED <<adminAuthenticatedSignal, adminStore>>
    /\ UNCHANGED <<isBrowser, recoveryHolder, checkoutPage, otherTabVars, cartWriter, cartVars, orderVars, apiVars, usersStore, currentUserStore, recoveryStore,
                   currentUserSignal, now, nextId>>

AdminLogout ==
  /\ adminAuthenticatedSignal' = FALSE
  /\ adminStore' = IF isBrowser THEN Absent ELSE adminStore
  /\ authCall' = AuthCall("adminLogout", NoArgs, Ok(""))
  /\ UNCHANGED <<isBrowser, recoveryHolder, checkoutPage, otherTabVars, cartWriter, cartVars, orderVars, apiVars, usersStore, currentUserStore, recoveryStore,
                 currentUserSignal, now, nextId>>

DeleteUser ==
  \E userId \in 1..MaxUsers :
    LET users == getAllUsers
        userIndex == findUserIndexById(users, userId)
    IN
    /\ IF ~isAdminAuthenticated
       THEN /\ authCall' = AuthCall("deleteUser", NoArgs,
                                    Fail("No tienes permisos para esta acción"))
            /\ UNCHANGED usersStore
       ELSE IF userIndex = 0
       THEN /\ authCall' = AuthCall("deleteUser", NoArgs, Fail("Usuario no encontrado"))
            /\ UNCHANGED usersStore
       ELSE /\ usersStore' = saveAllUsers(SubSeq(users, 1, userIndex - 1)
                                          \o SubSeq(users, userIndex + 1, Len(users)))
            /\ authCall' = AuthCall("deleteUser", NoArgs, Ok("Usuario eliminado exitosamente"))
    /\ UNCHANGED <<isBrowser, recoveryHolder, checkoutPage, otherTabVars, cartWriter, cartVars, orderVars, apiVars, currentUserStore, adminStore, recoveryStore,
                   currentUserSignal, adminAuthenticatedSignal, now, nextId>>

\* time passes
Tick ==
  /\ now < MaxTicks * TickStep
  /\ now' = now + TickStep
  /\ authCall' = AuthCall("tick", NoArgs, Ok(""))
  /\ UNCHANGED <<isBrowser, recoveryHolder, checkoutPage, otherTabVars, cartWriter, cartVars, orderVars, apiVars, usersStore, currentUserStore, adminStore,
                 recoveryStore, currentUserSignal, adminAuthenticatedSignal, nextId>>

AuthNext ==
  \/ AuthConstructor
  \/ Register
  \/ Login
  \/ Logout
  \/ UpdateProfile
  \/ SendVerificationCode
  \/ VerifyRecoveryCode
  \/ ResetPassword
  \/ AdminLogin
  \/ AdminLogout
  \/ DeleteUser

\* accounts and profiles: the calls that write the directory or the session
ProfileNext ==
  \/ Register
  \/ Login
  \/ Logout
  \/ UpdateProfileWithArgs
  \/ SendVerificationCode
  \/ ResetPassword
  \/ AdminLogin
  \/ DeleteUser

\* password recovery: the calls that read or write the recovery request, those
\* that add users to the directory and remove them, and the clock
RecoveryNext ==
  \/ Register
  \/ AdminLogin
  \/ DeleteUser
  \/ SendVerificationCodeWithArgs
  \/ VerifyRecoveryCodeWithArgs
  \/ ResetPasswordWithArgs
  \/ Tick

\* a recovery request and the directory changing under it: an email given
\* up by its user (profile edit or deletion) and registered again
ReuseNext ==
  \/ Register
  \/ UpdateProfileWithArgs
  \/ AdminLogin
  \/ DeleteUser
  \/ SendVerificationCodeToHolder
  \/ ResetPasswordWithArgs

\* the same with time passing (recovery codes expire)
AuthClockNext ==
  \/ AuthNext
  \/ Tick

----------------------------------------------------------------------------
(* OrderService (src/src/app/services/order.ts) *)

\* orders created in one exploration
MaxOrders == 3

\* values of Math.floor(100000 + Math.random() * 900000)
OrderRandoms == { 100000, 999999 }

\* new Date().getFullYear(), for a clock in milliseconds since 1970
getFullYear(t) == 1970 + (t \div 86400000) \div 365

\* `WW-${year}-${random}`
generateOrderNumber(random) == <<"WW", getFullYear(now), random>>

\* a Date object, and the ISO string JSON.stringify writes for it
DateOf(t) == [kind |-> "Date", ms |-> t]

toISOString(d) == [kind |-> "string", ms |-> d.ms]

\* what Checkout.confirmOrder passes for two carts of the test products
\* and for the empty cart: (items, subtotal, tax = 0, getShippingCost(),
\* getFinalTotal())
OrderInputs ==
  { [items |-> << [product |-> [id |-> 1, price |-> 10000], quantity |-> 2],
                  [product |-> [id |-> 2, price |-> 15000], quantity |-> 1] >>,
     subtotal |-> 35000, tax |-> 0, shipping |-> 5000, total |-> 40000],
    [items |-> << [product |-> [id |-> 3, price |-> 25000], quantity |-> 2] >>,
     subtotal |-> 50000, tax |-> 0, shipping |-> 0, total |-> 50000],
    [items |-> << >>,
     subtotal |-> 0, tax |-> 0, shipping |-> 5000, total |-> 5000] }

\* JSON.stringify(Order) and JSON.parse of it (a Date is written as its ISO
\* string, and JSON.parse leaves that string in place)
stringifyOrder(o) ==
  <<o.id, o.orderNumber, toISOString(o.date), stringifyCart(o.items),
    o.subtotal, o.tax, o.shipping, o.total, o.status>>

parseOrder(json) ==
  [id |-> json[1], orderNumber |-> json[2], date |-> json[3], items |-> parseCart(json[4]),
   subtotal |-> json[5], tax |-> json[6], shipping |-> json[7], total |-> json[8],
   status |-> json[9]]

\* localStorage.getItem(`order_${orderNumber}`)
getOrderItem(orderNumber) ==
  IF orderNumber \in DOMAIN orderStorage THEN Some(orderStorage[orderNumber]) ELSE Absent

getCurrentOrder == currentOrder

getOrderByNumber(orderNumber) ==
  IF isBrowser /\ getOrderItem(orderNumber) # Absent
  THEN Some(parseOrder(getOrderItem(orderNumber)[1]))
  ELSE Absent

getLastOrder ==
  IF isBrowser /\ lastOrderStore # Absent
  THEN getOrderByNumber(lastOrderStore[1])
  ELSE Absent

\* the order createOrder builds
newOrder(input, random) ==
  [id |-> nextOrderId, orderNumber |-> generateOrderNumber(random), date |-> DateOf(now),
   items |-> input.items, subtotal |-> input.subtotal, tax |-> input.tax,
   shipping |-> input.shipping, total |-> input.total, status |-> "confirmed"]

OrderCall(op, order) == [op |-> op, order |-> order]

OrderInit ==
  /\ currentOrder = Absent
  /\ orderStorage = <<>>
  /\ lastOrderStore = Absent
  /\ nextOrderId = 1
  /\ orderCall = OrderCall("constructor", Absent)
  /\ sharedItems = {}
  /\ checkoutPage = "closed"

\* createOrder(...) building `order`: the signal, the two storage writes of
\* saveOrderToStorage and the id drawn
CreateOrderStep(op, order) ==
    /\ nextOrderId <= MaxOrders
    /\ nextOrderId' = nextOrderId + 1
    /\ currentOrder' = Some(order)
    /\ orderStorage' =
         IF isBrowser
         THEN [n \in DOMAIN orderStorage \cup {order.orderNumber} |->
                 IF n = order.orderNumber THEN stringifyOrder(order) ELSE orderStorage[n]]
         ELSE orderStorage
    /\ lastOrderStore' = IF isBrowser THEN Some(order.orderNumber) ELSE lastOrderStore
    /\ orderCall' = OrderCall(op, Some(order))

CreateOrder ==
  \E input \in OrderInputs, random \in OrderRandoms :
    /\ CreateOrderStep("createOrder", newOrder(input, random))
    /\ sharedItems' = {}
    /\ UNCHANGED <<isBrowser, recoveryHolder, checkoutPage, otherTabVars, cartWriter, cartVars, authVars, apiVars>>

checkoutInput_afterClear ==
  [items |-> <<>>, subtotal |-> 0, tax |-> 0, shipping |-> ShippingFee, total |-> ShippingFee]

\* the arguments Checkout.confirmOrder passes to createOrder: the cart's own
\* items array and the totals read from the Cart service
checkoutInput ==
  [items |-> cartItems, subtotal |-> subtotal, tax |-> 0,
   shipping |-> getShippingCost, total |-> getFinalTotal]

ItemIds(items) == { items[i].product.id : i \in 1..Len(items) }

\* createOrder called with the cart's items and totals, the cart left as it
\* is: the order's array is a copy, its CartItem objects are the cart's
CreateOrderFromCart ==
  \E random \in OrderRandoms :
    /\ CreateOrderStep("createOrder", newOrder(checkoutInput, random))
    /\ sharedItems' = ItemIds(cartItems)
    /\ subtotalMemo' = Some(subtotal)
    /\ UNCHANGED <<isBrowser, recoveryHolder, checkoutPage, otherTabVars, cartWriter, cartItems, cartStorage, totalItemsMemo, cartCall,
                   authVars, apiVars>>

\* the router shows the Checkout component; ngOnInit sends an empty cart
\* back to /cart, and the component goes away
CheckoutOnInit ==
  /\ checkoutPage = "closed"
  /\ checkoutPage' = IF Len(cartItems) = 0 THEN "closed" ELSE "open"
  /\ UNCHANGED <<isBrowser, recoveryHolder, otherTabVars, cartWriter, cartVars, authVars,
                 orderVars, apiVars>>

\* a navigation away from /checkout completes (the one confirmOrder started
\* loads the Confirmation component first) and the component is destroyed
CheckoutDestroyed ==
  /\ checkoutPage # "closed"
  /\ checkoutPage' = "closed"
  /\ UNCHANGED <<isBrowser, recoveryHolder, otherTabVars, cartWriter, cartVars, authVars,
                 orderVars, apiVars>>

\* Checkout.confirmOrder, the click handler of the component on screen:
\* createOrder, then clearCart, then router.navigate to /confirmation
ConfirmOrder ==
  \E random \in OrderRandoms :
    /\ checkoutPage # "closed"
    /\ checkoutPage' = "leaving"
    /\ CreateOrderStep("confirmOrder", newOrder(checkoutInput, random))
    /\ cartItems' = <<>>
    /\ totalItemsMemo' = Absent
    /\ subtotalMemo' = Absent
    /\ cartStorage' = saveCartToStorage(<<>>)
    /\ cartWriter' = IF isBrowser THEN "thisTab" ELSE cartWriter
    /\ cartCall' = Call("clearCart", 0, 0)
    /\ sharedItems' = {}
    /\ UNCHANGED <<isBrowser, recoveryHolder, otherTabVars, authVars, apiVars>>

\* page reload: a new OrderService starts with no current order
OrderConstructor ==
  /\ currentOrder' = Absent
  /\ orderCall' = OrderCall("constructor", Absent)
  /\ sharedItems' = {}
  /\ UNCHANGED <<isBrowser, recoveryHolder, checkoutPage, otherTabVars, cartWriter, cartVars, authVars, apiVars, orderStorage, lastOrderStore,
                 nextOrderId>>

OrderNext ==
  \/ CreateOrder
  \/ OrderConstructor

\* shopping and checking out: the product card's add and the cart page's
\* removal while the checkout page is not on screen, then the checkout page
CheckoutNext ==
  \/ checkoutPage = "closed" /\ AddOneToCart
  \/ checkoutPage = "closed" /\ RemoveFromCart
  \/ CheckoutOnInit
  \/ ConfirmOrder
  \/ CheckoutDestroyed

\* Cart mutations around a createOrder that was handed the cart's items
SnapshotNext ==
  \/ AddOneToCart
  \/ UpdateQuantity
  \/ RemoveFromCart
  \/ ClearCart
  \/ CreateOrderFromCart

----------------------------------------------------------------------------
(* ApiService (src/src/app/services/api.service.ts) *)

\* GET requests one ApiService is let to send for each feed
MaxGets == 2

\* the bodies of categories.json and products.json
CategoriesFeed == << [id |-> 1], [id |-> 2] >>

ProductsFeed == << [id |-> 1, categoryId |-> 1], [id |-> 2, categoryId |-> 2] >>

stringifyCategories(cs) == [i \in 1..Len(cs) |-> <<cs[i].id>>]

parseCategories(json) == [i \in 1..Len(json) |-> [id |-> json[i][1]]]

stringifyProducts(ps) == [i \in 1..Len(ps) |-> <<ps[i].id, ps[i].categoryId>>]

parseProducts(json) == [i \in 1..Len(json) |-> [id |-> json[i][1], categoryId |-> json[i][2]]]

ApiInit ==
  /\ categoriesLoaded = FALSE
  /\ productsLoaded = FALSE
  /\ categoriesSignal = <<>>
  /\ productsSignal = <<>>
  /\ categoriesStore = Absent
  /\ productsStore = Absent
  /\ categoriesPending = 0
  /\ productsPending = 0
  /\ categoriesGets = 0
  /\ productsGets = 0

\* a component calls getCategories() and subscribes to what it returns
GetCategories ==
  /\ IF categoriesLoaded
     THEN UNCHANGED <<categoriesLoaded, categoriesSignal, categoriesPending, categoriesGets>>
     ELSE IF isBrowser /\ categoriesStore # Absent
     THEN /\ categoriesSignal' = parseCategories(categoriesStore[1])
          /\ categoriesLoaded' = TRUE
          /\ UNCHANGED <<categoriesPending, categoriesGets>>
     ELSE /\ categoriesGets < MaxGets
          /\ categoriesGets' = categoriesGets + 1
          /\ categoriesPending' = categoriesPending + 1
          /\ UNCHANGED <<categoriesLoaded, categoriesSignal>>
  /\ UNCHANGED <<isBrowser, recoveryHolder, checkoutPage, otherTabVars, cartWriter, cartVars, authVars, orderVars, productsLoaded, productsSignal,
                 categoriesStore, productsStore, productsPending, productsGets>>

\* the response to a GET categories.json arrives: the tap callback runs
CategoriesResponse ==
  /\ categoriesPending > 0
  /\ categoriesPending' = categoriesPending - 1
  /\ categoriesSignal' = CategoriesFeed
  /\ categoriesLoaded' = TRUE
  /\ categoriesStore' =
       IF isBrowser THEN Some(stringifyCategories(CategoriesFeed)) ELSE categoriesStore
  /\ UNCHANGED <<isBrowser, recoveryHolder, checkoutPage, otherTabVars, cartWriter, cartVars, authVars, orderVars, productsLoaded, productsSignal,
                 productsStore, productsPending, categoriesGets, productsGets>>

\* a GET categories.json fails: the tap callback does not run
CategoriesError ==
  /\ categoriesPending > 0
  /\ categoriesPending' = categoriesPending - 1
  /\ UNCHANGED <<isBrowser, recoveryHolder, checkoutPage, otherTabVars, cartWriter, cartVars, authVars, orderVars, categoriesLoaded, productsLoaded,
                 categoriesSignal, productsSignal, categoriesStore, productsStore,
                 productsPending, categoriesGets, productsGets>>

\* a component calls getProducts() and subscribes to what it returns
GetProducts ==
  /\ IF productsLoaded
     THEN UNCHANGED <<productsLoaded, productsSignal, productsPending, productsGets>>
     ELSE IF isBrowser /\ productsStore # Absent
     THEN /\ productsSignal' = parseProducts(productsStore[1])
          /\ productsLoaded' = TRUE
          /\ UNCHANGED <<productsPending, productsGets>>
     ELSE /\ productsGets < MaxGets
          /\ productsGets' = productsGets + 1
          /\ productsPending' = productsPending + 1
          /\ UNCHANGED <<productsLoaded, productsSignal>>
  /\ UNCHANGED <<isBrowser, recoveryHolder, checkoutPage, otherTabVars, cartWriter, cartVars, authVars, orderVars, categoriesLoaded, categoriesSignal,
                 categoriesStore, productsStore, categoriesPending, categoriesGets>>

\* the response to a GET products.json arrives: the tap callback runs
ProductsResponse ==
  /\ productsPending > 0
  /\ productsPending' = productsPending - 1
  /\ productsSignal' = ProductsFeed
  /\ productsLoaded' = TRUE
  /\ productsStore' =
       IF isBrowser THEN Some(stringifyProducts(ProductsFeed)) ELSE productsStore
  /\ UNCHANGED <<isBrowser, recoveryHolder, checkoutPage, otherTabVars, cartWriter, cartVars, authVars, orderVars, categoriesLoaded, categoriesSignal,
                 categoriesStore, categoriesPending, categoriesGets, productsGets>>

\* a GET products.json fails: the tap callback does not run
ProductsError ==
  /\ productsPending > 0
  /\ productsPending' = productsPending - 1
  /\ UNCHANGED <<isBrowser, recoveryHolder, checkoutPage, otherTabVars, cartWriter, cartVars, authVars, orderVars, categoriesLoaded, productsLoaded,
                 categoriesSignal, productsSignal, categoriesStore, productsStore,
                 categoriesPending, categoriesGets, productsGets>>

\* page reload: a new ApiService; responses to the old page's requests are lost
ApiConstructor ==
  /\ categoriesLoaded' = FALSE
  /\ productsLoaded' = FALSE
  /\ categoriesSignal' = <<>>
  /\ productsSignal' = <<>>
  /\ categoriesPending' = 0
  /\ productsPending' = 0
  /\ categoriesGets' = 0
  /\ productsGets' = 0
  /\ UNCHANGED <<isBrowser, recoveryHolder, checkoutPage, otherTabVars, cartWriter, cartVars, authVars, orderVars, categoriesStore, productsStore>>

ApiNext ==
  \/ GetCategories
  \/ CategoriesResponse
  \/ CategoriesError
  \/ GetProducts
  \/ ProductsResponse
  \/ ProductsError
  \/ ApiConstructor

----------------------------------------------------------------------------
(* A second browser tab: its own Cart (src/src/app/services/cart.ts) and     *)
(* AuthService (src/src/app/services/auth.ts) over the same localStorage    *)

OtherTabInit ==
  /\ otherTabCartItems = <<>>
  /\ otherTabCurrentUser = Absent
  /\ cartWriter = "none"

\* cartItems.set(newArray) followed by saveCartToStorage(), in the other tab
OtherTabSetAndSave(items) ==
  /\ isBrowser
  /\ InRange(items)
  /\ otherTabCartItems' = items
  /\ cartStorage' = saveCartToStorage(items)
  /\ cartWriter' = "otherTab"
  /\ UNCHANGED <<isBrowser, recoveryHolder, checkoutPage, otherTabCurrentUser, cartItems, totalItemsMemo, subtotalMemo,
                 cartCall, authVars, orderVars, apiVars>>

\* the product whose card the other tab shows
OtherTabCardProducts == { p \in Products : p.price = 10000 }

OtherTabAddOneToCart ==
  \E product \in OtherTabCardProducts :
    OtherTabSetAndSave(addToCartItems(otherTabCartItems, product, 1))

OtherTabRemoveFromCart ==
  \E productId \in ProductIds :
    OtherTabSetAndSave(removeFromCartItems(otherTabCartItems, productId))

\* the other tab is opened or reloaded: its Cart loads the stored list
OtherTabCartConstructor ==
  /\ isBrowser
  /\ otherTabCartItems' = loadCartFromStorage(cartStorage)
  /\ UNCHANGED <<isBrowser, recoveryHolder, checkoutPage, otherTabCurrentUser, cartWriter, cartVars, authVars, orderVars,
                 apiVars>>

\* two tabs shopping on one storage
TabsNext ==
  \/ AddOneToCart
  \/ RemoveFromCart
  \/ CartConstructor
  \/ OtherTabAddOneToCart
  \/ OtherTabRemoveFromCart
  \/ OtherTabCartConstructor

\* The AuthService of the second tab: the same methods, reading and writing
\* the same localStorage, with otherTabCurrentUser as its currentUserSignal.

\* the part of the state an outcome [users, signal, store, result] decides
\* when the other tab made the call
OtherTabApply(outcome) ==
  /\ isBrowser
  /\ usersStore' = outcome.users
  /\ otherTabCurrentUser' = outcome.signal
  /\ currentUserStore' = outcome.store
  /\ UNCHANGED <<isBrowser, recoveryHolder, checkoutPage, otherTabCartItems, cartWriter, cartVars,
                 orderVars, apiVars, adminStore, recoveryStore, currentUserSignal,
                 adminAuthenticatedSignal, now, authCall>>

\* the other tab is opened or reloaded: loadCurrentUser reads ww_current_user
OtherTabAuthConstructor ==
  /\ OtherTabApply([users |-> usersStore,
                    signal |-> IF currentUserStore # Absent
                               THEN Some(parseUser(currentUserStore[1])) ELSE Absent,
                    store |-> currentUserStore,
                    result |-> Ok("")])
  /\ UNCHANGED nextId

OtherTabRegister ==
  \E data \in RegisterInputs :
    LET outcome == registerOutcome(data) IN
    /\ outcome.result.success => nextId <= MaxUsers
    /\ OtherTabApply([outcome EXCEPT
                        !.signal = IF outcome.result.success THEN outcome.signal
                                   ELSE otherTabCurrentUser])
    /\ nextId' = IF outcome.result.success THEN nextId + 1 ELSE nextId

OtherTabLogout ==
  /\ OtherTabApply(logoutOutcome)
  /\ UNCHANGED nextId

\* updateProfile as the other tab runs it: currentUser is that tab's signal
otherTabUpdateProfileOutcome(updatedData) ==
  LET unchanged(result) ==
        [users |-> usersStore, signal |-> otherTabCurrentUser,
         store |-> currentUserStore, result |-> result]
  IN
  IF otherTabCurrentUser = Absent
  THEN unchanged(Fail("No hay sesión activa"))
  ELSE
    LET currentUser == otherTabCurrentUser[1]
        users == getAllUsers
        userIndex == findUserIndexById(users, currentUser.id)
        updatedUser ==
          [id |-> currentUser.id,
           usuario |-> IF updatedData.usuario # <<>> THEN updatedData.usuario
                       ELSE currentUser.usuario,
           email |-> IF updatedData.email # <<>> THEN updatedData.email
                     ELSE currentUser.email,
           password |-> IF updatedData.password # <<>> THEN updatedData.password
                        ELSE currentUser.password,
           fechaRegistro |-> currentUser.fechaRegistro]
    IN
    IF userIndex = 0
    THEN unchanged(Fail("Usuario no encontrado"))
    ELSE IF /\ updatedData.email # <<>>
            /\ updatedData.email # currentUser.email
            /\ \E i \in 1..Len(users) :
                 /\ users[i].id # currentUser.id
                 /\ toLowerCase(users[i].email) = toLowerCase(updatedData.email)
    THEN unchanged(Fail("El email ya está en uso"))
    ELSE IF /\ updatedData.usuario # <<>>
            /\ updatedData.usuario # currentUser.usuario
            /\ \E i \in 1..Len(users) :
                 /\ users[i].id # currentUser.id
                 /\ toLowerCase(users[i].usuario) = toLowerCase(updatedData.usuario)
    THEN unchanged(Fail("El nombre de usuario ya está en uso"))
    ELSE [users |-> saveAllUsers([users EXCEPT ![userIndex] = updatedUser]),
          signal |-> Some(updatedUser),
          store |-> setCurrentUser_store(updatedUser),
          result |-> Ok("Perfil actualizado exitosamente")]

\* the partial updates that submit a usuario, an email or both, and no password
IdentityUpdates ==
  { d \in UpdateInputs : d.password = <<>> /\ (d.usuario # <<>> \/ d.email # <<>>) }

\* updateProfile with a new usuario or email, in this tab
UpdateIdentity ==
  \E updatedData \in IdentityUpdates : UpdateProfileStep(updatedData, NoArgs)

\* and in the other tab
OtherTabUpdateIdentity ==
  \E updatedData \in IdentityUpdates :
    /\ OtherTabApply(otherTabUpdateProfileOutcome(updatedData))
    /\ UNCHANGED nextId

\* two tabs signed in on one storage
AuthTabsNext ==
  \/ AuthConstructor
  \/ Register
  \/ Logout
  \/ UpdateIdentity
  \/ OtherTabAuthConstructor
  \/ OtherTabRegister
  \/ OtherTabLogout
  \/ OtherTabUpdateIdentity

----------------------------------------------------------------------------
(* Specifications *)

Init ==
  /\ isBrowser \in BOOLEAN
  /\ CartInit
  /\ AuthInit
  /\ OrderInit
  /\ ApiInit
  /\ OtherTabInit

Next == CartNext

\* the Cart service alone
Spec == Init /\ [][Next]_vars

\* the AuthService alone, at one instant
SpecAuth == Init /\ [][AuthNext]_vars

\* the AuthService with the clock advancing
SpecAuthClock == Init /\ [][AuthClockNext]_vars

\* the AuthService's account and profile calls, updateProfile's arguments kept
SpecProfile == Init /\ [][ProfileNext]_vars

\* password recovery with the clock advancing, the recovery calls' arguments kept
SpecRecovery == Init /\ [][RecoveryNext]_vars

\* password recovery while emails change hands, at one instant
SpecReuse == Init /\ [][ReuseNext]_vars

\* the OrderService alone
SpecOrder == Init /\ [][OrderNext]_vars

\* the ApiService alone
SpecApi == Init /\ [][ApiNext]_vars

\* Cart, Checkout page and OrderService together
SpecCheckout == Init /\ [][CheckoutNext]_vars

\* Cart and OrderService, the order created from the cart's items
SpecSnapshot == Init /\ [][SnapshotNext]_vars

\* the Carts of two tabs over one localStorage
SpecTabs == Init /\ [][TabsNext]_vars

\* the AuthServices of two tabs over one localStorage
SpecAuthTabs == Init /\ [][AuthTabsNext]_vars

----------------------------------------------------------------------------
(* Cart: properties *)

RECURSIVE SumOver(_, _)
SumOver(f, n) == IF n = 0 THEN 0 ELSE f[n] + SumOver(f, n - 1)

LineTotals(items) == [i \in 1..Len(items) |-> items[i].product.price * items[i].quantity]

Quantities(items) == [i \in 1..Len(items) |-> items[i].quantity]

ManualSubtotal(items) == SumOver(LineTotals(items), Len(items))

ManualCount(items) == SumOver(Quantities(items), Len(items))

CartMutators == {"addToCart", "updateQuantity", "removeFromCart", "clearCart"}

\* C1: in every state reached by cart calls, subtotal() is the sum of
\* price * quantity over the current line items and totalItems() is the sum
\* of their quantities.
C1_DerivedValuesNeverDrift ==
  /\ subtotal = ManualSubtotal(cartItems)
  /\ totalItems = ManualCount(cartItems)

\* C1 witness: a quantity was just updated in a cart of two or more lines
C1_Witness ==
  /\ cartCall.op = "updateQuantity"
  /\ cartCall.existed
  /\ cartCall.quantity > 1
  /\ Len(cartItems) >= 2

NoDuplicateProductIds(items) ==
  \A i, j \in 1..Len(items) : items[i].product.id = items[j].product.id => i = j

\* C2: no two line items ever have the same product id, and addToCart on a
\* product already in the cart keeps the number of lines and adds the given
\* quantity to that product's line (q1 then q2 gives one line of q1 + q2).
C2_OneLinePerProduct ==
  /\ NoDuplicateProductIds(cartItems)
  /\ [][ /\ NoDuplicateProductIds(cartItems')
         /\ (cartCall'.op = "addToCart" /\ cartCall'.existed) =>
              /\ Len(cartItems') = Len(cartItems)
              /\ \A i \in 1..Len(cartItems) :
                   /\ cartItems'[i].product = cartItems[i].product
                   /\ cartItems'[i].quantity =
                        IF cartItems[i].product.id = cartCall'.productId
                        THEN cartItems[i].quantity + cartCall'.quantity
                        ELSE cartItems[i].quantity
       ]_vars

\* C2 witness: addToCart(p, 2) was applied to a line that already held 1
C2_Witness ==
  /\ cartCall.op = "addToCart"
  /\ cartCall.existed
  /\ cartCall.quantity = 2
  /\ \E i \in 1..Len(cartItems) :
       cartItems[i].product.id = cartCall.productId /\ cartItems[i].quantity = 3

\* C3: no line item with quantity 0 or below is held in the cart or written
\* to storage, whatever quantity addToCart or updateQuantity is given.
C3_NoNonPositiveQuantity ==
  /\ \A i \in 1..Len(cartItems) : cartItems[i].quantity >= 1
  /\ cartStorage # Absent =>
       \A i \in 1..Len(cartStorage[1]) : cartStorage[1][i][3] >= 1

\* C4: updateQuantity(id, q) with q <= 0 on a product in the cart removes
\* exactly that line: the other lines are unchanged, totalItems() drops by
\* the removed line's quantity and subtotal() by its price * quantity.
C4_UpdateToZeroRemovesExactlyThatLine ==
  [][ (cartCall'.op = "updateQuantity" /\ cartCall'.quantity <= 0 /\ cartCall'.existed) =>
        \E k \in 1..Len(cartItems) :
          /\ cartItems[k].product.id = cartCall'.productId
          /\ cartItems' = SubSeq(cartItems, 1, k - 1) \o SubSeq(cartItems, k + 1, Len(cartItems))
          /\ totalItems' = totalItems - cartItems[k].quantity
          /\ subtotal' = subtotal - cartItems[k].product.price * cartItems[k].quantity
    ]_vars

\* C4 witness: updateQuantity(id, 0) removed the middle line of three
C4_Witness ==
  /\ cartCall.op = "updateQuantity"
  /\ cartCall.quantity = 0
  /\ cartCall.existed
  /\ Len(cartItems) = 2
  /\ cartItems[1].product.id < cartCall.productId
  /\ cartCall.productId < cartItems[2].product.id

\* C5: getShippingCost() is 0 when the subtotal is 50000 or more and 5000
\* otherwise, and getFinalTotal() is subtotal() + getShippingCost().
C5_ShippingAndFinalTotal ==
  /\ ManualSubtotal(cartItems) >= 50000 => getShippingCost = 0
  /\ ManualSubtotal(cartItems) < 50000 => getShippingCost = 5000
  /\ getFinalTotal = ManualSubtotal(cartItems) + getShippingCost

\* C5 witness: the subtotal is exactly at the free-shipping threshold
C5_Witness ==
  /\ ManualSubtotal(cartItems) = 50000
  /\ getFinalTotal = 50000

\* C6: in a browser, after every cart mutation the stored value encodes the
\* current line items, and a Cart constructed from the stored value starts
\* with the same line items and the same derived totals.
C6_StorageMirrorsCart ==
  isBrowser =>
    /\ cartCall.op \in CartMutators => cartStorage = Some(stringifyCart(cartItems))
    /\ loadCartFromStorage(cartStorage) = cartItems
    /\ subtotalReduce(loadCartFromStorage(cartStorage)) = subtotal
    /\ totalItemsReduce(loadCartFromStorage(cartStorage)) = totalItems

\* C6 witness: a reloaded browser cart holding two lines
C6_Witness ==
  /\ isBrowser
  /\ cartCall.op = "constructor"
  /\ Len(cartItems) = 2
  /\ cartStorage # Absent

----------------------------------------------------------------------------
(* AuthService: properties *)

\* the user directory as stored under ww_users
Directory == IF usersStore = Absent THEN <<>> ELSE parseUsers(usersStore[1])

SameLetter(c, d) ==
  \/ c = d
  \/ {c, d} \in { {"a", "A"}, {"b", "B"}, {"p", "P"} }

EqualIgnoringCase(s, t) ==
  /\ Len(s) = Len(t)
  /\ \A i \in 1..Len(s) : SameLetter(s[i], t[i])

EmailRegistered(email) ==
  \E i \in 1..Len(Directory) : EqualIgnoringCase(Directory[i].email, email)

UsuarioRegistered(usuario) ==
  \E i \in 1..Len(Directory) : EqualIgnoringCase(Directory[i].usuario, usuario)

\* C8: register with an email some user already has (ignoring case) fails
\* with 'El email ya está registrado'; otherwise, with a username some user
\* already has (ignoring case), it fails with 'El nombre de usuario ya está
\* en uso'; either way no user is returned and the directory and the
\* session are left as they were.
C8_RegisterRejectsDuplicates ==
  [][ authCall'.op = "register" =>
        /\ EmailRegistered(authCall'.args.email) =>
             /\ authCall'.result = Fail("El email ya está registrado")
             /\ UNCHANGED <<usersStore, currentUserSignal, currentUserStore>>
        /\ (~EmailRegistered(authCall'.args.email)
              /\ UsuarioRegistered(authCall'.args.usuario)) =>
             /\ authCall'.result = Fail("El nombre de usuario ya está en uso")
             /\ UNCHANGED <<usersStore, currentUserSignal, currentUserStore>>
    ]_vars

\* C8 witness: a registration was refused for a username that differs from
\* the registered one only in case
C8_Witness ==
  /\ authCall.op = "register"
  /\ authCall.result = Fail("El nombre de usuario ya está en uso")
  /\ \E i \in 1..Len(Directory) :
       /\ Directory[i].usuario # authCall.args.usuario
       /\ EqualIgnoringCase(Directory[i].usuario, authCall.args.usuario)

CredentialsMatch(u, credentials) ==
  /\ \/ EqualIgnoringCase(u.email, credentials.emailOrUsername)
     \/ EqualIgnoringCase(u.usuario, credentials.emailOrUsername)
  /\ u.password = credentials.password

\* C9: login succeeds exactly when some user of the directory has an email
\* or username equal to the identifier ignoring case and exactly the given
\* password; every failure returns 'Credenciales incorrectas' and no user,
\* whether the identifier is unknown or the password is wrong.
C9_LoginExactlyOnMatch ==
  [][ authCall'.op = "login" =>
        /\ authCall'.result.success <=>
             \E i \in 1..Len(Directory) : CredentialsMatch(Directory[i], authCall'.args)
        /\ ~authCall'.result.success =>
             authCall'.result = Fail("Credenciales incorrectas")
    ]_vars

\* C9 witness: login failed for a registered identifier whose password was
\* typed in the wrong case
C9_Witness ==
  /\ authCall.op = "login"
  /\ authCall.result = Fail("Credenciales incorrectas")
  /\ \E i \in 1..Len(Directory) :
       /\ EqualIgnoringCase(Directory[i].email, authCall.args.emailOrUsername)
       /\ Directory[i].password # authCall.args.password
       /\ EqualIgnoringCase(Directory[i].password, authCall.args.password)

\* C10: a successful register or login makes currentUser the registered or
\* matched user (isAuthenticated true), logout makes currentUser null
\* (isAuthenticated false), and a failed register or login leaves
\* currentUser as it was.
C10_SessionStateMachine ==
  [][ /\ (authCall'.op = "register" /\ authCall'.result.success) =>
           /\ isAuthenticated'
           /\ currentUserSignal' = authCall'.result.user
           /\ currentUserSignal'[1].email = authCall'.args.email
           /\ currentUserSignal'[1].usuario = authCall'.args.usuario
           /\ currentUserSignal'[1].password = authCall'.args.password
      /\ (authCall'.op = "login" /\ authCall'.result.success) =>
           /\ isAuthenticated'
           /\ currentUserSignal' = authCall'.result.user
           /\ \E i \in 1..Len(Directory) :
                /\ Directory[i] = currentUserSignal'[1]
                /\ CredentialsMatch(Directory[i], authCall'.args)
      /\ authCall'.op = "logout" =>
           /\ currentUserSignal' = Absent
           /\ ~isAuthenticated'
      /\ (authCall'.op \in {"register", "login"} /\ ~authCall'.result.success) =>
           currentUserSignal' = currentUserSignal
    ]_vars

\* C10 witness: a session was closed by logout after a user had registered
C10_Witness ==
  /\ authCall.op = "logout"
  /\ ~isAuthenticated
  /\ Len(Directory) >= 1

\* the user of the open session has an entry in the directory
SessionUserListed ==
  /\ currentUserSignal # Absent
  /\ \E i \in 1..Len(Directory) : Directory[i].id = currentUserSignal[1].id

\* some user other than the session's has this email / username, ignoring case
EmailOfAnother(email) ==
  /\ email # <<>>
  /\ \E i \in 1..Len(Directory) :
       /\ Directory[i].id # currentUserSignal[1].id
       /\ EqualIgnoringCase(Directory[i].email, email)

UsuarioOfAnother(usuario) ==
  /\ usuario # <<>>
  /\ \E i \in 1..Len(Directory) :
       /\ Directory[i].id # currentUserSignal[1].id
       /\ EqualIgnoringCase(Directory[i].usuario, usuario)

\* the update names no email or username other than the session user's own
OnlyOwnValues(d) ==
  /\ d.email = <<>> \/ d.email = currentUserSignal[1].email
  /\ d.usuario = <<>> \/ d.usuario = currentUserSignal[1].usuario

DirectoryAndSessionUnchanged == UNCHANGED <<usersStore, currentUserSignal, currentUserStore>>

\* on success only the session user's entry changed, its id and fechaRegistro kept
OnlyOwnEntryChanged ==
  /\ Len(Directory') = Len(Directory)
  /\ \A i \in 1..Len(Directory) :
       /\ Directory'[i].id = Directory[i].id
       /\ Directory'[i].fechaRegistro = Directory[i].fechaRegistro
       /\ Directory[i].id # currentUserSignal[1].id => Directory'[i] = Directory[i]

\* what updateProfile(d) owes a session whose user is in the directory
UpdateProfileOfListedUser(d, result) ==
  /\ EmailOfAnother(d.email) =>
       /\ result = Fail("El email ya está en uso")
       /\ DirectoryAndSessionUnchanged
  /\ (~EmailOfAnother(d.email) /\ UsuarioOfAnother(d.usuario)) =>
       /\ result = Fail("El nombre de usuario ya está en uso")
       /\ DirectoryAndSessionUnchanged
  /\ OnlyOwnValues(d) => result.success
  /\ result.success => OnlyOwnEntryChanged

C12_PasswordKeptWithoutNewValue ==
  [][ (/\ authCall'.op = "updateProfile"
       /\ authCall'.result.success
       /\ authCall'.args.password = <<>>) =>
        \A i \in 1..Len(Directory) :
          Directory[i].id = currentUserSignal[1].id =>
            Directory'[i].password = Directory[i].password
    ]_vars

\* the ids of a list of users
IdsOf(users) == { users[i].id : i \in 1..Len(users) }

\* C13: while the admin flag is not set, getRegisteredUsers returns an empty
\* list, getUserStats returns zero counts, and deleteUser fails and leaves the
\* directory as it was; a user leaves the directory only in a successful
\* deleteUser made while the admin flag is set.
C13_AdminOnly ==
  /\ ~adminAuthenticatedSignal =>
       /\ getRegisteredUsers = <<>>
       /\ getUserStats = [total |-> 0, todayRegistrations |-> 0]
  /\ [][ /\ ~adminAuthenticatedSignal' =>
              /\ getRegisteredUsers' = <<>>
              /\ getUserStats' = [total |-> 0, todayRegistrations |-> 0]
         /\ (authCall'.op = "deleteUser" /\ ~adminAuthenticatedSignal) =>
              /\ authCall'.result = Fail("No tienes permisos para esta acción")
              /\ usersStore' = usersStore
         /\ (usersStore' # usersStore /\ IdsOf(Directory) \ IdsOf(Directory') # {}) =>
              /\ authCall'.op = "deleteUser"
              /\ authCall'.result.success
              /\ adminAuthenticatedSignal
       ]_vars

\* C13 witness: deleteUser was refused, without the admin flag, in a directory
\* of two users
C13_Witness ==
  /\ authCall.op = "deleteUser"
  /\ authCall.result = Fail("No tienes permisos para esta acción")
  /\ ~adminAuthenticatedSignal
  /\ Len(Directory) = 2

----------------------------------------------------------------------------
(* Password recovery: properties *)

NoOutstandingRequest == Fail("No hay código de recuperación activo")

CodeExpired == Fail("El código ha expirado. Solicita uno nuevo")

RecoveryChecks == {"verifyRecoveryCode", "resetPassword"}

\* the stored request was issued for this email (ignoring case) with this code
RequestMatches(args) ==
  /\ recoveryStore # Absent
  /\ EqualIgnoringCase(recoveryStore[1][1], args.email)
  /\ recoveryStore[1][2] = args.code

\* the stored request was issued at this instant for the call's email and code
IssuedNowFor(request, args) ==
  /\ EqualIgnoringCase(request[1], args.email)
  /\ request[2] = args.code
  /\ request[3] = now
  /\ request[4] = now + 600000

\* C14: sendVerificationCode for an email no user has fails and leaves the
\* stored request as it was; for a known email it succeeds and the stored
\* request becomes the one just issued, whatever was stored before; the
\* single stored request changes only by such an issue or by being deleted,
\* and a verification succeeds only for the email and code of that request,
\* the most recently issued one.
C14_OneRequestMostRecentOnly ==
  [][ /\ authCall'.op = "sendVerificationCode" =>
           /\ ~EmailRegistered(authCall'.args.email) =>
                /\ authCall'.result = Fail("No existe una cuenta con este email")
                /\ recoveryStore' = recoveryStore
           /\ EmailRegistered(authCall'.args.email) =>
                /\ authCall'.result.success
                /\ recoveryStore' # Absent
                /\ IssuedNowFor(recoveryStore'[1], authCall'.args)
      /\ recoveryStore' # recoveryStore =>
           \/ authCall'.op = "sendVerificationCode" /\ authCall'.result.success
           \/ recoveryStore' = Absent
      /\ (authCall'.op \in RecoveryChecks /\ authCall'.result.success) =>
           RequestMatches(authCall'.args)
    ]_vars

\* C14 witness: a code was sent while a request with the other code was
\* stored, and the stored request is now the new one
C14_Witness ==
  /\ authCall.op = "sendVerificationCode"
  /\ authCall.result.success
  /\ authCall.args.replaced # Absent
  /\ authCall.args.replaced[1] # authCall.args.code
  /\ recoveryStore[1][2] = authCall.args.code

\* C15: verifyRecoveryCode and resetPassword called with the email and code
\* of the stored request at or after its expiry (issue time + 10 minutes) fail
\* with the expired outcome, the request is deleted and no password changes.
C15_UnusableFromExpiryOn ==
  [][ (/\ authCall'.op \in RecoveryChecks
       /\ RequestMatches(authCall'.args)
       /\ now >= recoveryStore[1][3] + 600000) =>
        /\ authCall'.result = CodeExpired
        /\ recoveryStore' = Absent
        /\ usersStore' = usersStore
    ]_vars

\* C16: verifyRecoveryCode with the email and code of the stored request,
\* less than 10 minutes after it was issued, succeeds; a successful
\* resetPassword (made in a browser only) deletes the request; with no request
\* stored, verifyRecoveryCode and resetPassword fail with the
\* no-outstanding-request outcome; and a request is stored again only by a
\* successful sendVerificationCode.
C16_VerifyThenConsumed ==
  [][ /\ (/\ authCall'.op = "verifyRecoveryCode"
          /\ RequestMatches(authCall'.args)
          /\ now < recoveryStore[1][3] + 600000) =>
           authCall'.result = Ok("Código verificado correctamente")
      /\ (authCall'.op = "resetPassword" /\ authCall'.result.success) =>
           /\ isBrowser
           /\ recoveryStore' = Absent
      /\ (authCall'.op \in RecoveryChecks /\ isBrowser /\ recoveryStore = Absent) =>
           /\ authCall'.result = NoOutstandingRequest
           /\ recoveryStore' = Absent
      /\ (recoveryStore = Absent /\ recoveryStore' # Absent) =>
           /\ authCall'.op = "sendVerificationCode"
           /\ authCall'.result.success
    ]_vars

\* C16 witness: verifyRecoveryCode found no request after a resetPassword had
\* changed the password registered with username "a"
C16_Witness ==
  /\ authCall.op = "verifyRecoveryCode"
  /\ authCall.result = NoOutstandingRequest
  /\ recoveryStore = Absent
  /\ \E i \in 1..Len(Directory) :
       Directory[i].usuario = <<"a">> /\ Directory[i].password = <<"P">>

\* C17: resetPassword never returns the user-not-found failure, which it
\* gives only after its code verification passed.
C17_ResetNeverFindsNoUser ==
  [][ authCall'.op = "resetPassword" =>
        authCall'.result # Fail("Usuario no encontrado")
    ]_vars

----------------------------------------------------------------------------
(* OrderService: properties *)

\* C18: in a browser, after createOrder the record getOrderByNumber returns
\* for the new order's number equals the order createOrder returned, and so
\* does getLastOrder(); getOrderByNumber returns null for a number under
\* which nothing is stored, and getLastOrder returns null when no pointer is
\* stored.
C18_StoredOrderEqualsReturned ==
  isBrowser =>
    /\ orderCall.op = "createOrder" =>
         /\ getOrderByNumber(orderCall.order[1].orderNumber) = orderCall.order
         /\ getLastOrder = orderCall.order
    /\ lastOrderStore = Absent => getLastOrder = Absent
    /\ \A random \in OrderRandoms :
         generateOrderNumber(random) \notin DOMAIN orderStorage =>
           getOrderByNumber(generateOrderNumber(random)) = Absent

\* C19: every createOrder uses an order number under which no order is
\* stored yet, and an order once stored stays stored, unchanged, under its
\* number whatever orders are created later.
C19_OrdersNeverOverwritten ==
  [][ /\ orderCall'.op = "createOrder" =>
           orderCall'.order[1].orderNumber \notin DOMAIN orderStorage
      /\ \A n \in DOMAIN orderStorage :
           /\ n \in DOMAIN orderStorage'
           /\ orderStorage'[n] = orderStorage[n]
    ]_vars

----------------------------------------------------------------------------
(* ApiService: properties *)

\* C20: one ApiService sends at most one GET for the products feed and at
\* most one for the categories feed, however many getProducts / getCategories
\* calls are made and whenever the responses arrive.
C20_EachFeedFetchedAtMostOnce ==
  /\ categoriesGets <= 1
  /\ productsGets <= 1

----------------------------------------------------------------------------
(* AuthService: the session in memory and in storage *)

\* C21: in a browser tab, after any calls on the AuthService, the current
\* user in memory is the record stored under ww_current_user (null exactly
\* when the key is absent) and the admin flag in memory is true exactly when
\* ww_admin_session holds 'true'.
C21_SessionMirrorsStorage ==
  isBrowser =>
    /\ currentUserSignal = Absent <=> currentUserStore = Absent
    /\ currentUserSignal # Absent =>
         /\ currentUserStore = Some(stringifyUser(currentUserSignal[1]))
         /\ currentUserSignal[1] = parseUser(currentUserStore[1])
    /\ adminAuthenticatedSignal <=> adminStore = Some("true")

\* C21 witness: a browser session whose profile was just updated, with the
\* admin flag set
C21_Witness ==
  /\ isBrowser
  /\ authCall.op = "updateProfile"
  /\ authCall.result.success
  /\ currentUserStore # Absent
  /\ adminAuthenticatedSignal

----------------------------------------------------------------------------
(* Checkout: properties *)

\* C22: confirmOrder records an order whose items are the cart's line items
\* as they were when it was called, with subtotal the cart's subtotal, tax 0,
\* shipping 0 from 50000 up and 5000 below, total = subtotal + shipping and
\* status 'confirmed'; in a browser that order is what is stored under its
\* number and what the last-order pointer names, and after the call the cart
\* is empty in memory and in storage.
C22_ConfirmOrderRecordsTheCart ==
  [][ (orderCall'.op = "confirmOrder" /\ orderCall' # orderCall) =>
        LET order == orderCall'.order[1] IN
        /\ order.items = cartItems
        /\ order.subtotal = ManualSubtotal(cartItems)
        /\ order.tax = 0
        /\ order.shipping = IF ManualSubtotal(cartItems) >= 50000 THEN 0 ELSE 5000
        /\ order.total = order.subtotal + order.shipping
        /\ order.status = "confirmed"
        /\ currentOrder' = Some(order)
        /\ isBrowser =>
             /\ order.orderNumber \in DOMAIN orderStorage'
             /\ orderStorage'[order.orderNumber] = stringifyOrder(order)
             /\ orderStorage'[order.orderNumber][4] = stringifyCart(cartItems)
             /\ lastOrderStore' = Some(order.orderNumber)
             /\ cartStorage' = Some(<<>>)
        /\ cartItems' = <<>>
        /\ loadCartFromStorage(cartStorage') = <<>>
    ]_vars

\* C22 witness: a browser cart of two units at 25000 was confirmed (free
\* shipping at exactly 50000) and the cart is now empty
C22_Witness ==
  /\ isBrowser
  /\ orderCall.op = "confirmOrder"
  /\ Len(orderCall.order[1].items) = 1
  /\ orderCall.order[1].items[1].quantity = 2
  /\ orderCall.order[1].shipping = 0
  /\ orderCall.order[1].total = 50000
  /\ cartItems = <<>>
  /\ cartStorage = Some(<<>>)

\* C23: once createOrder has returned an order, no Cart call (addToCart,
\* updateQuantity, removeFromCart, clearCart) changes the items or the
\* quantities of that order as getCurrentOrder returns it.
C23_OrderItemsAreASnapshot ==
  [][ (orderCall' = orderCall /\ getCurrentOrder # Absent) =>
        /\ getCurrentOrder' # Absent
        /\ getCurrentOrder'[1].items = getCurrentOrder[1].items
    ]_vars

\* C26: in every cart state the total shown by the cart page is the amount
\* to pay, shipping included: it equals the getFinalTotal() that the checkout
\* page shows and records as the order total.
C26_CartPageTotalIsFinalTotal == cartPageTotal = checkoutTotal

----------------------------------------------------------------------------
(* Two tabs: properties *)

\* C24: with two tabs on one storage, the stored cart is always the list of
\* the tab that mutated its cart last, and nothing of the other tab's list:
\* after a mutation in this tab and then one in the other tab, storage holds
\* the other tab's list alone.
C24_LastWriteWins ==
  /\ cartWriter = "otherTab" => cartStorage = Some(stringifyCart(otherTabCartItems))
  /\ cartWriter = "thisTab" => cartStorage = Some(stringifyCart(cartItems))

\* C24 witness: this tab added product 3, then the other tab, whose list was
\* loaded before that, added product 1: the stored cart is the other tab's
\* list and product 3 is not in it
C24_Witness ==
  /\ cartWriter = "otherTab"
  /\ cartCall.op = "addToCart"
  /\ 3 \in ItemIds(cartItems)
  /\ ItemIds(parseCart(cartStorage[1])) = {1}
  /\ ItemIds(otherTabCartItems) = {1}

----------------------------------------------------------------------------
(* Routes: properties *)

UserRoutes == {"checkout", "profile", "edit-profile"}

GuestRoutes == {"sign-in", "sign-up", "recover-password"}

\* C25: whatever the session is when a route is activated, checkout, profile
\* and edit-profile activate only with a user logged in and otherwise send
\* to /sign-in; sign-in, sign-up and recover-password activate only with no
\* user logged in and otherwise send to /profile; admin-dashboard activates
\* only with the admin flag set and otherwise sends to /admin-login;
\* admin-login only with the flag not set and otherwise to /admin-dashboard.
C25_RoutesRespectSession ==
  /\ UserRoutes \cup GuestRoutes \cup {"admin-dashboard", "admin-login"}
       \subseteq { r.path : r \in routes }
  /\ \A path \in UserRoutes :
       activation(path) =
         IF currentUserSignal # Absent THEN Activated ELSE RedirectTo("/sign-in")
  /\ \A path \in GuestRoutes :
       activation(path) =
         IF currentUserSignal = Absent THEN Activated ELSE RedirectTo("/profile")
  /\ activation("admin-dashboard") =
       IF adminAuthenticatedSignal THEN Activated ELSE RedirectTo("/admin-login")
  /\ activation("admin-login") =
       IF ~adminAuthenticatedSignal THEN Activated ELSE RedirectTo("/admin-dashboard")

\* C25 witness: a user has just logged in and no administrator has: checkout
\* activates, sign-in sends to /profile, admin-dashboard sends to /admin-login
C25_Witness ==
  /\ authCall.op = "login"
  /\ authCall.result.success
  /\ ~adminAuthenticatedSignal
  /\ activation("checkout").allowed
  /\ activation("sign-in").navigate = Some("/profile")
  /\ activation("admin-dashboard").navigate = Some("/admin-login")

----------------------------------------------------------------------------
(* AuthService: sessions and recovery requests of users that are gone *)

\* C27: in a browser, whenever a user session is open, in memory or under
\* ww_current_user, the id of its user is the id of a user of the directory:
\* no session is left for a user an administrator has deleted.
C27_SessionUserIsInDirectory ==
  isBrowser =>
    /\ currentUserSignal # Absent => currentUserSignal[1].id \in IdsOf(Directory)
    /\ currentUserStore # Absent => parseUser(currentUserStore[1]).id \in IdsOf(Directory)

\* C28: a resetPassword step changes the password of no user other than the
\* one who held the email when the stored request was issued, whatever
\* updateProfile, deleteUser and register did to the directory in between.
C28_ResetOnlyForTheHolder ==
  [][ authCall'.op = "resetPassword" =>
        \A i \in 1..Len(Directory), j \in 1..Len(Directory') :
          (/\ Directory[i].id = Directory'[j].id
           /\ Directory[i].password # Directory'[j].password) =>
            recoveryHolder = Some(Directory[i].id)
    ]_vars

----------------------------------------------------------------------------
(* Checkout: orders of an emptied cart *)

\* C29: in a browser, every order checkout records has at least one line
\* item: the order held in memory, every order in storage and the order the
\* lastOrder pointer names, also when confirmOrder runs again on the page it
\* is leaving.
C29_CheckoutOrdersHaveItems ==
  isBrowser =>
    /\ currentOrder # Absent => Len(currentOrder[1].items) >= 1
    /\ \A n \in DOMAIN orderStorage : Len(parseOrder(orderStorage[n]).items) >= 1
    /\ getLastOrder # Absent => Len(getLastOrder[1].items) >= 1

----------------------------------------------------------------------------
(* Two tabs: the user directory *)

\* C30: with two tabs on one storage, each AuthService holding its own copy
\* of the current user, no two users of the directory have the same email or
\* the same usuario, compared without regard to case, whatever register,
\* logout and updateProfile calls the two tabs interleave.
C30_UniqueAcrossTabs ==
  /\ Cardinality({ toLowerCase(Directory[i].email) : i \in 1..Len(Directory) })
       = Len(Directory)
  /\ Cardinality({ toLowerCase(Directory[i].usuario) : i \in 1..Len(Directory) })
       = Len(Directory)

====
